---- MODULE Spec2Model ----
(***************************************************************************)
(* A model of ragnarok's three-stage pipeline (gui_runner.rs,              *)
(* gui_runner/worker_thread.rs, gui_runner/gui_thread/gui.rs,              *)
(* gui_runner/game_runner/robot_wrapper.rs):                               *)
(*                                                                         *)
(*   game loop --sync_channel(1)--> worker thread --channel--> GUI         *)
(*       ^                                                      |          *)
(*       +----------------- channel<RunMode> -------------------+          *)
(*                                                                         *)
(* Each thread is a small program counter machine; the three mpsc          *)
(* channels are sequences.  A channel end is dropped when the thread that  *)
(* owns it has ended.                                                      *)
(***************************************************************************)
EXTENDS Integers, Sequences, FiniteSets, TLC

VARIABLES
    \* ---- game loop (GuiRunner::run_game_loop, on the caller's thread)
    game_pc,            \* "drain" | "branch" | "sleep_paused" | "sleep_cap" | "tick" | "send" | "done",
                        \* and in GuiRunner::new and GuiRunner::run: "new" | "first_tick" |
                        \* "first_send" | "first_sent" | "constructed" | "failed"
    run_mode,           \* the local run_mode of run_game_loop
    ticks,              \* game_tick() calls made by the loop (the tick of GuiRunner::new is tick 0)
    game_world,         \* robot_map(world): the grid as the robot knows it
    robot_position,     \* the robot's coordinate, <<x, y>>, 0-based
    world_data,         \* the PartialWorld process_tick is sending (game_pc = "send")
    elapsed,            \* last_tick_begin.elapsed() as the capped arm last read it, or as
                        \* its sleep left it; in units of Interval, up to MaxElapsed
    is_first_tick,      \* RobotWrapper::is_first_tick
    outcome,            \* of GuiRunner::new and GuiRunner::run: "none" | "err" | "panic" | "ok"
    \* ---- channels
    gui_to_game,        \* channel::<RunMode>()
    game_to_worker,     \* sync_channel::<PartialWorld>(1)
    worker_to_gui,      \* channel::<PartialWorld>()
    \* ---- worker thread (WorkerThread::start)
    worker_pc,          \* "unstarted" | "recv" | "forward" | "done"
    world_copy,         \* Option<Vec<Vec<Option<Tile>>>>: NoWorld or a grid
    new_world,          \* the PartialWorld in the worker's hands (worker_pc = "forward")
    \* ---- GUI thread (GUI::new, GUI::run)
    gui_module,         \* the GUI module built: "gui_thread" (gui_thread/gui.rs) or "gui" (gui.rs)
    gui_pc,             \* "unstarted" | "new" | "run" | "exiting" | "done" | "panicked"
    gui_run_mode,       \* the local run_mode of GUI::run
    last_was_uncapped,
    last_ticks_per_second_cap,
    gui_world_copy,     \* GUI::world_copy
    \* ---- history (read by the properties only)
    n_sent,             \* RunMode messages the GUI has sent
    terminate_sent,     \* a Terminate has been sent
    single_sent,        \* SingleTick messages the GUI has sent
    continuous_sent,    \* a Continuous has been sent
    last_drain,         \* the messages taken by the drain that led to game_pc = "branch"
    observed,           \* the mode the last match in run_game_loop branched on
    tick_at_branch,     \* ticks at that match
    worker_seen,        \* the ticks of the first MaxTicks + 1 PartialWorlds the worker received
    prev_copy,          \* world_copy as it was before the worker's last scan
    send_failed,        \* a to_worker_tx.send has returned Err
    mesh_tiles,         \* the tiles_to_refresh the last world_mesh.update was given
    ai_calls,           \* calls of self.ai.process_tick, counted as ticks is
    views,              \* calls of robot_view
    sends               \* calls of to_worker_tx.send, counted up to MaxTicks + 2

vars == <<game_pc, run_mode, ticks, game_world, robot_position, world_data, elapsed,
          gui_to_game, game_to_worker, worker_to_gui,
          worker_pc, world_copy, new_world,
          gui_pc, gui_run_mode, last_was_uncapped, last_ticks_per_second_cap,
          gui_world_copy,
          n_sent, terminate_sent, single_sent, continuous_sent, last_drain, observed, tick_at_branch, worker_seen,
          prev_copy, send_failed, gui_module, mesh_tiles,
          is_first_tick, outcome, ai_calls, views, sends>>

wrapper_vars == <<is_first_tick, outcome, ai_calls, views, sends>>
game_vars   == <<game_pc, run_mode, ticks, game_world, robot_position, world_data,
                 elapsed, last_drain, observed, tick_at_branch, send_failed, wrapper_vars>>
worker_vars == <<worker_pc, world_copy, new_world, worker_seen, prev_copy>>
gui_vars    == <<gui_module, gui_pc, gui_run_mode, last_was_uncapped,
                 last_ticks_per_second_cap, gui_world_copy, n_sent, terminate_sent, single_sent, continuous_sent,
                 mesh_tiles>>

----------------------------------------------------------------------------
\* Bounds of the model.

\* game_tick() calls the loop may make.
MaxTicks == 2
\* RunMode messages the GUI may send.
MaxSent == 2
\* The side of the (square) world.
GridSize == 3
\* Distinct tile values.
MaxTile == 2
\* Cells a single tick may change (SpecDiff).
MaxChanged == 2

----------------------------------------------------------------------------
\* RunMode (gui_runner.rs:20-26).  Continuous carries Option<f32>: cap = NoCap
\* is None, a positive cap is Some(cap).

NoCap == 0
SingleTick == [tag |-> "SingleTick", cap |-> NoCap]
Paused     == [tag |-> "Paused", cap |-> NoCap]
Terminate  == [tag |-> "Terminate", cap |-> NoCap]
Continuous(cap) == [tag |-> "Continuous", cap |-> cap]

\* last_ticks_per_second_cap starts at 5.0; the slider moves it in 1.0..=200.0.
InitialCap == 5
SliderCaps == {InitialCap, 2 * InitialCap}

RunMode == {SingleTick, Paused, Terminate} \cup {Continuous(c) : c \in {NoCap} \cup SliderCaps}

IsContinuous(m) == m.tag = "Continuous"

\* Duration::from_secs_f32(1.0 / cap), in units of the interval of the highest
\* cap of SliderCaps; elapsed times are told apart up to the longest interval.
Interval(cap) == (2 * InitialCap) \div cap
MaxElapsed == Interval(InitialCap)


----------------------------------------------------------------------------
\* PartialWorld::world (gui_runner.rs:30): Vec<Vec<Option<Tile>>>, a sequence
\* of columns; the cell the code writes world[x][y] is w[x + 1][y + 1] here.
\* NoTile is None, a tile value 1..MaxTile is Some(tile).

NoTile == 0
Tiles == 1..MaxTile
NoWorld == <<>>
NoData == [tick |-> 0, world |-> NoWorld, tiles_to_refresh |-> {}, robot_position |-> <<0, 0>>]

Coords(len) == (0..(len - 1)) \X (0..(len - 1))
Undiscovered(len) == [x \in 1..len |-> [y \in 1..len |-> NoTile]]

\* A neighbourhood computed without the clamp.
ClampNot(v, min, max) == v

\* i32::clamp(min, max)
Clamp(v, min, max) == IF v < min THEN min ELSE IF v > max THEN max ELSE v

\* Neighbourhoods other than the worker's: towards higher coordinates only
\* (dx, dy in 0..=1), and two cells wide (dx, dy in -2..=2).
RefreshAroundForward(x, y, len) ==
    { <<Clamp(x + dx, 0, len - 1), Clamp(y + dy, 0, len - 1)>> : dx \in 0..1, dy \in 0..1 }
RefreshAroundWide(x, y, len) ==
    { <<Clamp(x + dx, 0, len - 1), Clamp(y + dy, 0, len - 1)>> : dx \in -2..2, dy \in -2..2 }

\* The dx, dy loops of the worker: the cells around (x, y), each coordinate
\* clamped to 0..=len - 1.
RefreshAround(x, y, len) ==
    { <<Clamp(x + dx, 0, len - 1), Clamp(y + dy, 0, len - 1)>> : dx \in -1..1, dy \in -1..1 }

\* The cells the scan finds different; both loops run over 0..new_world.world.len().
ChangedCells(copy, world) ==
    { c \in Coords(Len(world)) : copy[c[1] + 1][c[2] + 1] # world[c[1] + 1][c[2] + 1] }

\* tiles_to_refresh after the scan of a later PartialWorld.
ScanTiles(copy, world) ==
    UNION { RefreshAround(c[1], c[2], Len(world)) : c \in ChangedCells(copy, world) }

\* A scan that marks the cells found different and leaves world_copy as it was.
ScanCopyStale(copy, world) == copy

\* world_copy after the scan: a cell found different takes the new value.
ScanCopy(copy, world) ==
    [x \in 1..Len(copy) |->
        [y \in 1..Len(copy[x]) |->
            IF <<x - 1, y - 1>> \in ChangedCells(copy, world) THEN world[x][y] ELSE copy[x][y]]]

\* A first-world branch that would mark the robot's cell alone.
FirstTilesRobotOnly(world, pos) == {pos}

\* tiles_to_refresh for the first PartialWorld: the cells around the robot.
FirstTiles(world, pos) == RefreshAround(pos[1], pos[2], Len(world))

----------------------------------------------------------------------------
\* The world behind robot_map(): the tile the robot finds at a cell, and what
\* the robot knows after looking around a cell (robot_view on the first tick,
\* and the interface calls of the wrapped robot's process_tick afterwards).

Terrain(x, y) == 1 + ((x + y) % MaxTile)

\* A robot_view that would see two cells far.
DiscoverWide(world, pos) ==
    [x \in 1..Len(world) |->
        [y \in 1..Len(world) |->
            IF world[x][y] = NoTile /\ <<x - 1, y - 1>> \in RefreshAroundWide(pos[1], pos[2], Len(world))
            THEN Terrain(x - 1, y - 1)
            ELSE world[x][y]]]

Discover(world, pos) ==
    [x \in 1..Len(world) |->
        [y \in 1..Len(world) |->
            IF world[x][y] = NoTile /\ <<x - 1, y - 1>> \in RefreshAround(pos[1], pos[2], Len(world))
            THEN Terrain(x - 1, y - 1)
            ELSE world[x][y]]]

\* self.ai.process_tick(world): the wrapped robot stays where it is, or moves
\* one cell along x and sees the cells around it.
ProcessTickOutcomes(world, pos) ==
    LET next == <<pos[1] + 1, pos[2]>>
    IN  { [world |-> world, pos |-> pos] } \cup
        (IF next[1] < Len(world)
         THEN { [world |-> Discover(world, next), pos |-> next] }
         ELSE {})

\* A process_tick that leaves the look around out.
RobotWrapperTickNoView(first, world, pos) ==
    { [world |-> o.world, pos |-> o.pos, stepped |-> TRUE, viewed |-> FALSE] :
        o \in ProcessTickOutcomes(world, pos) }

\* A process_tick that may leave the wrapped robot out.
RobotWrapperTickSkips(first, world, pos) ==
    { [world |-> o.world, pos |-> o.pos, stepped |-> b, viewed |-> FALSE] :
        o \in ProcessTickOutcomes(world, pos), b \in BOOLEAN }

\* RobotWrapper::process_tick up to the PartialWorld: robot_view on the first
\* tick, self.ai.process_tick on every other.
RobotWrapperTick(first, world, pos) ==
    IF first
    THEN { [world |-> Discover(world, pos), pos |-> pos, stepped |-> FALSE, viewed |-> TRUE] }
    ELSE { [world |-> o.world, pos |-> o.pos, stepped |-> TRUE, viewed |-> FALSE] :
            o \in ProcessTickOutcomes(world, pos) }

\* The PartialWorld process_tick builds (robot_wrapper.rs:38-45).
WorldData(tick, world, pos) ==
    [tick |-> tick, world |-> world, tiles_to_refresh |-> {}, robot_position |-> pos]

StartPosition == <<0, 0>>

----------------------------------------------------------------------------
\* The channels.

\* sync_channel::<PartialWorld>(1)
RawCapacity == 1

\* A send over a rendezvous channel: it waits until the queue is empty.
SendToGameBlocking(mode) ==
    /\ gui_to_game = <<>>
    /\ gui_to_game' = IF game_pc = "done" THEN gui_to_game ELSE Append(gui_to_game, mode)
    /\ n_sent' = n_sent + 1
    /\ terminate_sent' = (terminate_sent \/ mode = Terminate)
    /\ single_sent' = IF mode = SingleTick THEN single_sent + 1 ELSE single_sent
    /\ continuous_sent' = (continuous_sent \/ IsContinuous(mode))

\* A send of the run_mode as it was before the interaction.
SendToGameStale(mode) ==
    /\ gui_to_game' = IF game_pc = "done" THEN gui_to_game
                      ELSE Append(gui_to_game, gui_run_mode)
    /\ n_sent' = n_sent + 1
    /\ terminate_sent' = (terminate_sent \/ mode = Terminate)
    /\ single_sent' = IF mode = SingleTick THEN single_sent + 1 ELSE single_sent
    /\ continuous_sent' = (continuous_sent \/ IsContinuous(mode))

\* tx_to_game.send(mode).unwrap(): there is no step past a send that fails.
SendToGameUnwraps(mode) ==
    /\ game_pc # "done"
    /\ gui_to_game' = Append(gui_to_game, mode)
    /\ n_sent' = n_sent + 1
    /\ terminate_sent' = (terminate_sent \/ mode = Terminate)
    /\ single_sent' = IF mode = SingleTick THEN single_sent + 1 ELSE single_sent
    /\ continuous_sent' = (continuous_sent \/ IsContinuous(mode))

\* tx_to_game.send(mode) with the result ignored: the message is queued unless
\* the game loop has returned and dropped the receiver.
SendToGame(mode) ==
    /\ gui_to_game' = IF game_pc = "done" THEN gui_to_game ELSE Append(gui_to_game, mode)
    /\ n_sent' = n_sent + 1
    /\ terminate_sent' = (terminate_sent \/ mode = Terminate)
    /\ single_sent' = IF mode = SingleTick THEN single_sent + 1 ELSE single_sent
    /\ continuous_sent' = (continuous_sent \/ IsContinuous(mode))

\* Iterator::last over try_iter(): every queued message is taken, each one
\* replacing the one before.
RECURSIVE IterLast(_, _)
IterLast(queue, acc) ==
    IF queue = <<>> THEN acc ELSE IterLast(Tail(queue), Head(queue))

\* A drain keeping the first queued message, not the last: try_iter().next().
DrainRunModeFirst(queue, mode) == IF queue = <<>> THEN mode ELSE Head(queue)

\* gui_to_game_rx.try_iter().last().unwrap_or(run_mode)
DrainRunMode(queue, mode) == IterLast(queue, mode)

----------------------------------------------------------------------------
\* The game loop: GuiRunner::run_game_loop.

\* run_mode = gui_to_game_rx.try_iter().last().unwrap_or(run_mode)
GameDrain ==
    /\ game_pc = "drain"
    /\ run_mode' = DrainRunMode(gui_to_game, run_mode)
    /\ last_drain' = gui_to_game
    /\ gui_to_game' = <<>>
    /\ game_pc' = "branch"
    /\ UNCHANGED <<ticks, game_world, robot_position, world_data, observed,
                   tick_at_branch, game_to_worker, worker_to_gui, elapsed, send_failed>>
    /\ UNCHANGED <<worker_vars, gui_vars>>
    /\ UNCHANGED wrapper_vars

\* A match whose Paused arm breaks out of the inner loop like the others.
BranchTargetPausedTicks(mode, time) ==
    IF mode = SingleTick THEN {[pc |-> "tick", mode |-> Paused]}
    ELSE IF mode = Terminate THEN {[pc |-> "done", mode |-> mode]}
    ELSE {[pc |-> "tick", mode |-> mode]}

\* A match whose SingleTick arm does not put run_mode back to Paused.
BranchTargetKeepsSingleTick(mode, time) ==
    IF mode = Terminate THEN {[pc |-> "done", mode |-> mode]}
    ELSE IF mode = Paused THEN {[pc |-> "sleep_paused", mode |-> mode]}
    ELSE {[pc |-> "tick", mode |-> mode]}

\* A match whose Terminate arm breaks out of the inner loop only.
BranchTargetTerminateTicks(mode, time) ==
    IF mode = SingleTick THEN {[pc |-> "tick", mode |-> Paused]}
    ELSE IF mode = Paused THEN {[pc |-> "sleep_paused", mode |-> mode]}
    ELSE {[pc |-> "tick", mode |-> mode]}

\* A capped arm that would never sleep.
CapBranchAtOnce(cap, time) == "tick"

\* RunMode::Continuous(Some(cap)): if interval > elapsed the rest of the
\* interval is slept out before the break, otherwise the break comes at once.
CapBranch(cap, time) == IF Interval(cap) > time THEN "sleep_cap" ELSE "tick"

\* A match whose SingleTick arm leaves the loop running uncapped.
BranchTargetSingleTickRuns(mode, time) ==
    IF mode = SingleTick THEN {[pc |-> "tick", mode |-> Continuous(NoCap)]}
    ELSE IF mode = Continuous(NoCap) THEN {[pc |-> "tick", mode |-> mode]}
    ELSE IF mode = Terminate THEN {[pc |-> "done", mode |-> mode]}
    ELSE IF IsContinuous(mode)
         THEN {[pc |-> CapBranch(mode.cap, time), mode |-> mode]}
    ELSE {[pc |-> "sleep_paused", mode |-> mode]}

\* Where the match on run_mode leads, and the run_mode it leaves.
BranchTarget(mode, time) ==
    IF mode = SingleTick THEN {[pc |-> "tick", mode |-> Paused]}
    ELSE IF mode = Continuous(NoCap) THEN {[pc |-> "tick", mode |-> mode]}
    ELSE IF mode = Terminate THEN {[pc |-> "done", mode |-> mode]}
    ELSE IF IsContinuous(mode)
         THEN {[pc |-> CapBranch(mode.cap, time), mode |-> mode]}
    ELSE {[pc |-> "sleep_paused", mode |-> mode]}

\* match run_mode { ... }
GameBranch ==
    /\ game_pc = "branch"
    /\ \E time \in 0..MaxElapsed :
        /\ elapsed' = IF IsContinuous(run_mode) /\ run_mode.cap # NoCap THEN time ELSE elapsed
        /\ \E t \in BranchTarget(run_mode, time) :
            /\ game_pc' = t.pc
            /\ run_mode' = t.mode
    /\ observed' = run_mode
    /\ tick_at_branch' = ticks
    /\ last_drain' = <<>>
    /\ UNCHANGED <<ticks, game_world, robot_position, world_data,
                   gui_to_game, game_to_worker, worker_to_gui, send_failed>>
    /\ UNCHANGED <<worker_vars, gui_vars>>
    /\ UNCHANGED wrapper_vars

\* The times at or after a time.
Later(time) == time..MaxElapsed

\* thread::sleep(Duration::from_millis(5)) returns: back to the drain.
GamePausedSleep ==
    /\ game_pc = "sleep_paused"
    /\ game_pc' = "drain"
    /\ UNCHANGED <<run_mode, ticks, game_world, robot_position, world_data, elapsed,
                   last_drain, observed, tick_at_branch, gui_to_game, game_to_worker,
                   worker_to_gui, send_failed>>
    /\ UNCHANGED <<worker_vars, gui_vars>>
    /\ UNCHANGED wrapper_vars

\* thread::sleep(interval - elapsed) returns, no earlier than asked: break,
\* on to the tick.
GameCapSleep ==
    /\ game_pc = "sleep_cap"
    /\ game_pc' = "tick"
    /\ elapsed' \in Later(Interval(run_mode.cap))
    /\ UNCHANGED <<run_mode, ticks, game_world, robot_position, world_data,
                   last_drain, observed, tick_at_branch, gui_to_game, game_to_worker,
                   worker_to_gui, send_failed>>
    /\ UNCHANGED <<worker_vars, gui_vars>>
    /\ UNCHANGED wrapper_vars

\* last_tick_begin = Instant::now(), then runner.game_tick() up to the send of
\* RobotWrapper::process_tick: the wrapped robot's process_tick runs and the
\* PartialWorld is built.
GameTick ==
    /\ game_pc = "tick"
    /\ ticks < MaxTicks
    /\ \E out \in RobotWrapperTick(is_first_tick, game_world, robot_position) :
        /\ game_world' = out.world
        /\ robot_position' = out.pos
        /\ world_data' = WorldData(ticks + 1, out.world, out.pos)
        /\ ai_calls' = IF out.stepped THEN ai_calls + 1 ELSE ai_calls
        /\ views' = IF out.viewed THEN views + 1 ELSE views
    /\ is_first_tick' = FALSE
    /\ ticks' = ticks + 1
    /\ elapsed' = 0
    /\ game_pc' = "send"
    /\ UNCHANGED <<run_mode, last_drain, observed, tick_at_branch, gui_to_game, game_to_worker,
                   worker_to_gui, send_failed, outcome, sends>>
    /\ UNCHANGED <<worker_vars, gui_vars>>

\* The same step once the loop has made MaxTicks calls: the tick is performed
\* and no longer counted (FairSpec, where the loop may run for ever).
GameTickOn ==
    /\ game_pc = "tick"
    /\ ticks = MaxTicks
    /\ \E out \in RobotWrapperTick(is_first_tick, game_world, robot_position) :
        /\ game_world' = out.world
        /\ robot_position' = out.pos
        /\ world_data' = WorldData(ticks, out.world, out.pos)
    /\ is_first_tick' = FALSE
    /\ elapsed' = 0
    /\ game_pc' = "send"
    /\ UNCHANGED <<ticks, run_mode, last_drain, observed, tick_at_branch, gui_to_game,
                   game_to_worker, worker_to_gui, send_failed, outcome, ai_calls, views,
                   sends>>
    /\ UNCHANGED <<worker_vars, gui_vars>>

\* A send over an unbounded channel: it never waits.
CanSendUnbounded(queue) == TRUE

\* A send over a rendezvous channel (sync_channel(0)): it returns only once
\* the receiving thread is in recv().
CanSendRendezvous(queue) == worker_pc = "done" \/ (queue = <<>> /\ worker_pc = "recv")

\* The queue after to_worker_tx.send(data) has returned: the message is
\* appended; with the receiver dropped the send fails and the error is ignored.
\* The send cannot return while the buffer is full and the receiver alive.
CanSend(queue) == worker_pc = "done" \/ Len(queue) < RawCapacity
AfterSend(queue, data) == IF worker_pc = "done" THEN queue ELSE Append(queue, data)

\* let _ = self.to_worker_tx.send(world_data) returns, and with it game_tick().
GameSend ==
    /\ game_pc = "send"
    /\ CanSend(game_to_worker)
    /\ game_to_worker' = AfterSend(game_to_worker, world_data)
    /\ send_failed' = (send_failed \/ worker_pc = "done")
    /\ sends' = IF sends <= MaxTicks + 1 THEN sends + 1 ELSE sends
    /\ world_data' = NoData
    /\ game_pc' = "drain"
    /\ UNCHANGED <<run_mode, ticks, game_world, robot_position, elapsed, last_drain,
                   observed, tick_at_branch, gui_to_game, worker_to_gui, is_first_tick,
                   outcome, ai_calls, views>>
    /\ UNCHANGED <<worker_vars, gui_vars>>

----------------------------------------------------------------------------
\* GuiRunner::new and GuiRunner::run around the game loop.

loop_vars == <<run_mode, ticks, elapsed, last_drain, observed, tick_at_branch, send_failed>>

\* A constructor that starts the worker thread before the first tick.
RunnerNewSpawns ==
    /\ game_pc = "new"
    /\ game_pc' = "first_tick"
    /\ worker_pc' = "recv"
    /\ UNCHANGED <<game_world, robot_position, world_data, loop_vars, wrapper_vars>>
    /\ UNCHANGED <<gui_to_game, game_to_worker, worker_to_gui, gui_vars>>
    /\ UNCHANGED <<world_copy, new_world, worker_seen, prev_copy>>

\* Runner::new(Box::new(robot_wrapper), generator)? returns Ok.
RunnerNew ==
    /\ game_pc = "new"
    /\ game_pc' = "first_tick"
    /\ UNCHANGED <<game_world, robot_position, world_data, loop_vars, wrapper_vars>>
    /\ UNCHANGED <<gui_to_game, game_to_worker, worker_to_gui, worker_vars, gui_vars>>

\* Runner::new or the first runner.game_tick() returns Err and `?` returns it
\* from GuiRunner::new: the channels and the runner are dropped.
GuiRunnerNewErr ==
    /\ game_pc \in {"new", "first_tick", "first_sent"}
    /\ game_pc' = "failed"
    /\ outcome' = "err"
    /\ game_to_worker' = <<>>
    /\ UNCHANGED <<game_world, robot_position, world_data, loop_vars, is_first_tick,
                   ai_calls, views, sends>>
    /\ UNCHANGED <<gui_to_game, worker_to_gui, worker_vars, gui_vars>>

\* runner.game_tick() of GuiRunner::new up to the send of process_tick.
GuiRunnerFirstTick ==
    /\ game_pc = "first_tick"
    /\ \E out \in RobotWrapperTick(is_first_tick, game_world, robot_position) :
        /\ game_world' = out.world
        /\ robot_position' = out.pos
        /\ world_data' = WorldData(0, out.world, out.pos)
        /\ ai_calls' = IF out.stepped THEN ai_calls + 1 ELSE ai_calls
        /\ views' = IF out.viewed THEN views + 1 ELSE views
    /\ is_first_tick' = FALSE
    /\ game_pc' = "first_send"
    /\ UNCHANGED <<loop_vars, outcome, sends>>
    /\ UNCHANGED <<gui_to_game, game_to_worker, worker_to_gui, worker_vars, gui_vars>>

\* The send of that process_tick: no thread is receiving yet.
GuiRunnerFirstSend ==
    /\ game_pc = "first_send"
    /\ CanSend(game_to_worker)
    /\ game_to_worker' = AfterSend(game_to_worker, world_data)
    /\ sends' = sends + 1
    /\ world_data' = NoData
    /\ game_pc' = "first_sent"
    /\ UNCHANGED <<game_world, robot_position, loop_vars, is_first_tick, outcome,
                   ai_calls, views>>
    /\ UNCHANGED <<gui_to_game, worker_to_gui, worker_vars, gui_vars>>

\* game_tick() returns Ok; WorkerThread::new, GUIThread::new, Ok(Self).
GuiRunnerNewOk ==
    /\ game_pc = "first_sent"
    /\ game_pc' = "constructed"
    /\ UNCHANGED <<game_world, robot_position, world_data, loop_vars, wrapper_vars>>
    /\ UNCHANGED <<gui_to_game, game_to_worker, worker_to_gui, worker_vars, gui_vars>>

\* GuiRunner::run: worker_thread.start(), gui_thread.start(), run_game_loop.
GuiRunnerRun ==
    /\ game_pc = "constructed"
    /\ game_pc' = "drain"
    /\ worker_pc' = "recv"
    /\ gui_pc' = "new"
    /\ UNCHANGED <<game_world, robot_position, world_data, loop_vars, wrapper_vars>>
    /\ UNCHANGED <<gui_to_game, game_to_worker, worker_to_gui>>
    /\ UNCHANGED <<world_copy, new_world, worker_seen, prev_copy>>
    /\ UNCHANGED <<gui_module, gui_run_mode, last_was_uncapped, last_ticks_per_second_cap,
                   gui_world_copy, n_sent, terminate_sent, single_sent, continuous_sent, mesh_tiles>>

\* runner.game_tick() returns Err in the loop and unwrap() panics: the thread
\* of run_game_loop unwinds, dropping the runner and gui_to_game_rx.
GameTickErr ==
    /\ game_pc = "tick"
    /\ game_pc' = "done"
    /\ outcome' = "panic"
    /\ UNCHANGED <<game_world, robot_position, world_data, loop_vars, is_first_tick,
                   ai_calls, views, sends>>
    /\ UNCHANGED <<gui_to_game, game_to_worker, worker_to_gui, worker_vars, gui_vars>>

\* The loop has returned and both join() calls return Ok: run returns Ok(()).
GuiRunnerRunOk ==
    /\ game_pc = "done"
    /\ outcome = "none"
    /\ gui_pc = "done"
    /\ worker_pc = "done"
    /\ outcome' = "ok"
    /\ UNCHANGED <<game_pc, game_world, robot_position, world_data, loop_vars,
                   is_first_tick, ai_calls, views, sends>>
    /\ UNCHANGED <<gui_to_game, game_to_worker, worker_to_gui, worker_vars, gui_vars>>

----------------------------------------------------------------------------
\* The worker thread: WorkerThread::start.

\* What the worker makes of a received PartialWorld: its tiles_to_refresh ...
WorkerTiles(copy, data) ==
    IF copy = NoWorld
    THEN FirstTiles(data.world, data.robot_position)
    ELSE ScanTiles(copy, data.world)

\* ... and its world_copy afterwards.
WorkerCopy(copy, data) ==
    IF copy = NoWorld THEN data.world ELSE ScanCopy(copy, data.world)

\* A receive that would leave the message in the queue.
AfterRecvKeeps(queue) == queue

\* The queue after recv() has taken a message.
AfterRecv(queue) == Tail(queue)

\* game_to_worker_rx.recv() returns Ok(w); the scan (or the first-world branch)
\* fills tiles_to_refresh and brings world_copy up to date.
WorkerRecv ==
    /\ worker_pc = "recv"
    /\ game_to_worker # <<>>
    /\ LET data == Head(game_to_worker)
       IN  /\ new_world' = [data EXCEPT !.tiles_to_refresh = WorkerTiles(world_copy, data)]
           /\ world_copy' = WorkerCopy(world_copy, data)
           /\ worker_seen' = IF Len(worker_seen) <= MaxTicks
                              THEN Append(worker_seen, data.tick)
                              ELSE worker_seen
    /\ prev_copy' = world_copy
    /\ game_to_worker' = AfterRecv(game_to_worker)
    /\ worker_pc' = "forward"
    /\ UNCHANGED <<gui_to_game, worker_to_gui>>
    /\ UNCHANGED <<game_vars, gui_vars>>

\* A recv() that goes on waiting when the sender has been dropped.
WorkerRecvBlocks ==
    /\ worker_pc = "recv"
    /\ game_to_worker = <<>>
    /\ game_pc = "done"
    /\ UNCHANGED vars

\* recv() returns Err: the queue is empty and the game loop has dropped the sender.
WorkerRecvClosed ==
    /\ worker_pc = "recv"
    /\ game_to_worker = <<>>
    /\ game_pc = "done"
    /\ worker_pc' = "done"
    /\ UNCHANGED <<world_copy, new_world, worker_seen, prev_copy>>
    /\ UNCHANGED <<gui_to_game, game_to_worker, worker_to_gui>>
    /\ UNCHANGED <<game_vars, gui_vars>>

\* A forward over a rendezvous channel: it waits until the GUI has taken
\* the world sent before.
WorkerForwardWaits ==
    /\ worker_pc = "forward"
    /\ IF gui_pc = "done"
       THEN /\ worker_pc' = "done"
            /\ UNCHANGED worker_to_gui
       ELSE /\ worker_to_gui = <<>>
            /\ worker_pc' = "recv"
            /\ worker_to_gui' = Append(worker_to_gui, new_world)
    /\ new_world' = NoData
    /\ UNCHANGED <<world_copy, worker_seen, prev_copy>>
    /\ UNCHANGED <<gui_to_game, game_to_worker>>
    /\ UNCHANGED <<game_vars, gui_vars>>

\* A worker that sends each annotated world twice.
WorkerForwardTwice ==
    /\ worker_pc = "forward"
    /\ IF gui_pc = "done"
       THEN /\ worker_pc' = "done"
            /\ UNCHANGED worker_to_gui
       ELSE /\ Len(worker_to_gui) < MaxTicks
            /\ worker_pc' = "recv"
            /\ worker_to_gui' = worker_to_gui \o <<new_world, new_world>>
    /\ new_world' = NoData
    /\ UNCHANGED <<world_copy, worker_seen, prev_copy>>
    /\ UNCHANGED <<gui_to_game, game_to_worker>>
    /\ UNCHANGED <<game_vars, gui_vars>>

\* worker_to_gui_tx.send(new_world): never blocks; Err (the GUI has dropped
\* the receiver) ends the thread.  The model keeps the queue to MaxTicks + 1
\* worlds, which is all that Spec can queue; only FairSpec, where the loop
\* ticks on, ever meets the bound.
WorkerForward ==
    /\ worker_pc = "forward"
    /\ IF gui_pc = "done"
       THEN /\ worker_pc' = "done"
            /\ UNCHANGED worker_to_gui
       ELSE /\ Len(worker_to_gui) <= MaxTicks
            /\ worker_pc' = "recv"
            /\ worker_to_gui' = Append(worker_to_gui, new_world)
    /\ new_world' = NoData
    /\ UNCHANGED <<world_copy, worker_seen, prev_copy>>
    /\ UNCHANGED <<gui_to_game, game_to_worker>>
    /\ UNCHANGED <<game_vars, gui_vars>>

----------------------------------------------------------------------------
\* The GUI thread: GUI::new and the event handlers of GUI::run.

\* A toggle that takes a requested single tick for a running simulation.
ToggleContinuousModeStops(mode, uncapped, cap) ==
    IF IsContinuous(mode) \/ mode = SingleTick
    THEN Paused
    ELSE Continuous(IF uncapped THEN NoCap ELSE cap)

\* GUI::toggle_continuous_mode: the new run_mode.
ToggleContinuousMode(mode, uncapped, cap) ==
    IF IsContinuous(mode)
    THEN Paused
    ELSE Continuous(IF uncapped THEN NoCap ELSE cap)

\* GUI::request_single_tick: the new run_mode.
RequestSingleTick(mode) == SingleTick

\* The for loop over rx_from_worker.try_iter(): the tiles of every received
\* world are merged, the last world is kept.
RECURSIVE MergeTiles(_, _)
MergeTiles(queue, acc) ==
    IF queue = <<>> THEN acc
    ELSE MergeTiles(Tail(queue), acc \cup Head(queue).tiles_to_refresh)

\* world_copy after the "update world_copy" block.
UpdateWorldCopy(queue, copy) ==
    IF queue = <<>> THEN copy
    ELSE [queue[Len(queue)] EXCEPT !.tiles_to_refresh = MergeTiles(queue, {})]

\* world_copy after the same block of gui.rs: try_iter().last(), the last
\* world as the worker sent it.
UpdateWorldCopyLast(queue, copy) ==
    IF queue = <<>> THEN copy ELSE queue[Len(queue)]

GuiModules == {"gui_thread", "gui"}

\* A frame that leaves tiles_to_refresh as world_mesh.update found it.
ClearKeeps(data) == data

\* A settings block that sends on every change.
SendsChangeAlways(changed, continuous) == changed

\* if changed && continuous { ... send ... }
SendsChange(changed, continuous) == changed /\ continuous

\* self.world_copy.tiles_to_refresh.clear()
Clear(data) == [data EXCEPT !.tiles_to_refresh = {}]

\* GUI::new: rx_from_worker.recv().unwrap() takes the first world.
GuiNew ==
    /\ gui_pc = "new"
    /\ worker_to_gui # <<>>
    /\ gui_world_copy' = Head(worker_to_gui)
    /\ worker_to_gui' = Tail(worker_to_gui)
    /\ gui_pc' = "run"
    /\ UNCHANGED <<gui_run_mode, last_was_uncapped, last_ticks_per_second_cap,
                   n_sent, terminate_sent, single_sent, continuous_sent>>
    /\ UNCHANGED <<gui_to_game, game_to_worker>>
    /\ UNCHANGED <<gui_module, mesh_tiles>>
    /\ UNCHANGED <<game_vars, worker_vars>>

\* GUI::new when the worker has ended and left nothing queued: recv() returns
\* Err and unwrap() panics; the GUI thread unwinds.
GuiNewClosed ==
    /\ gui_pc = "new"
    /\ worker_to_gui = <<>>
    /\ worker_pc = "done"
    /\ gui_pc' = "panicked"
    /\ UNCHANGED <<gui_run_mode, last_was_uncapped, last_ticks_per_second_cap,
                   gui_world_copy, n_sent, terminate_sent, single_sent, continuous_sent>>
    /\ UNCHANGED <<gui_to_game, game_to_worker, worker_to_gui>>
    /\ UNCHANGED <<gui_module, mesh_tiles>>
    /\ UNCHANGED <<game_vars, worker_vars>>

\* The event loop delivers events while it runs and, once set_exit() has been
\* called, until the iteration in which it was called ends.
Dispatching == gui_pc \in {"run", "exiting"}

\* WindowEvent::CloseRequested
GuiCloseRequested ==
    /\ Dispatching
    /\ n_sent < MaxSent
    /\ gui_run_mode' = Terminate
    /\ SendToGame(Terminate)
    /\ gui_pc' = "exiting"
    /\ UNCHANGED <<last_was_uncapped, last_ticks_per_second_cap, gui_world_copy>>
    /\ UNCHANGED <<game_to_worker, worker_to_gui>>
    /\ UNCHANGED <<gui_module, mesh_tiles>>
    /\ UNCHANGED <<game_vars, worker_vars>>

\* WindowEvent::KeyboardInput: M toggles continuous mode, N asks for one tick.
GuiKeyboardInput ==
    /\ Dispatching
    /\ n_sent < MaxSent
    /\ \E key \in {"M", "N"} :
        LET mode == IF key = "M"
                    THEN ToggleContinuousMode(gui_run_mode, last_was_uncapped,
                                              last_ticks_per_second_cap)
                    ELSE RequestSingleTick(gui_run_mode)
        IN  /\ gui_run_mode' = mode
            /\ SendToGame(mode)
    /\ UNCHANGED <<gui_pc, last_was_uncapped, last_ticks_per_second_cap, gui_world_copy>>
    /\ UNCHANGED <<game_to_worker, worker_to_gui>>
    /\ UNCHANGED <<gui_module, mesh_tiles>>
    /\ UNCHANGED <<game_vars, worker_vars>>

\* The widgets of "Simulation settings" a frame may find used.
Widgets == {"none", "run_stop", "single_tick", "uncapped", "speed"}

\* Event::MainEventsCleared: one frame.  The queued worlds are drained, the
\* mesh is brought up to date and tiles_to_refresh cleared, and the widgets run.
GuiFrame ==
    /\ Dispatching
    /\ LET updated == IF gui_module = "gui_thread"
                       THEN UpdateWorldCopy(worker_to_gui, gui_world_copy)
                       ELSE UpdateWorldCopyLast(worker_to_gui, gui_world_copy)
       IN  \* world_mesh.update(&mut world_copy, ..); world_copy.tiles_to_refresh.clear()
           /\ mesh_tiles' = updated.tiles_to_refresh
           /\ gui_world_copy' = Clear(updated)
    /\ worker_to_gui' = <<>>
    /\ \E widget \in Widgets :
        LET continuous == IsContinuous(gui_run_mode)
        IN  \/ /\ widget = "none"
               /\ UNCHANGED <<gui_run_mode, gui_to_game, n_sent, terminate_sent, single_sent, continuous_sent,
                              last_was_uncapped, last_ticks_per_second_cap>>
            \/ /\ widget = "run_stop"
               /\ n_sent < MaxSent
               /\ LET mode == ToggleContinuousMode(gui_run_mode, last_was_uncapped,
                                                   last_ticks_per_second_cap)
                  IN  gui_run_mode' = mode /\ SendToGame(mode)
               /\ UNCHANGED <<last_was_uncapped, last_ticks_per_second_cap>>
            \/ /\ widget = "single_tick"
               /\ ~continuous           \* ui.disabled(continuous, ...)
               /\ n_sent < MaxSent
               /\ LET mode == RequestSingleTick(gui_run_mode)
                  IN  gui_run_mode' = mode /\ SendToGame(mode)
               /\ UNCHANGED <<last_was_uncapped, last_ticks_per_second_cap>>
            \/ /\ widget \in {"uncapped", "speed"}
               /\ continuous => n_sent < MaxSent
               /\ IF widget = "uncapped"
                  THEN /\ last_was_uncapped' = ~last_was_uncapped
                       /\ UNCHANGED last_ticks_per_second_cap
                  ELSE /\ \E cap \in SliderCaps \ {last_ticks_per_second_cap} :
                            last_ticks_per_second_cap' = cap
                       /\ UNCHANGED last_was_uncapped
               \* if changed && continuous { run_mode = Continuous(cap); send }
               /\ IF SendsChange(TRUE, continuous)
                  THEN LET mode == Continuous(IF last_was_uncapped' THEN NoCap
                                              ELSE last_ticks_per_second_cap')
                       IN  gui_run_mode' = mode /\ SendToGame(mode)
                  ELSE UNCHANGED <<gui_run_mode, gui_to_game, n_sent, terminate_sent, single_sent, continuous_sent>>
    /\ UNCHANGED <<gui_module, gui_pc, game_to_worker>>
    /\ UNCHANGED <<game_vars, worker_vars>>

\* The iteration in which set_exit() was called ends: the event loop stops and
\* the thread ends, dropping rx_from_worker and tx_to_game.
GuiLoopDestroyed ==
    /\ gui_pc = "exiting"
    /\ gui_pc' = "done"
    /\ UNCHANGED <<gui_run_mode, last_was_uncapped, last_ticks_per_second_cap,
                   gui_world_copy, n_sent, terminate_sent, single_sent, continuous_sent>>
    /\ UNCHANGED <<gui_to_game, game_to_worker, worker_to_gui>>
    /\ UNCHANGED <<gui_module, mesh_tiles>>
    /\ UNCHANGED <<game_vars, worker_vars>>

----------------------------------------------------------------------------
\* The state GuiRunner::new leaves and GuiRunner::run starts the threads in:
\* the first game_tick() has looked around the robot and queued tick 0.

InitialWorld == Discover(Undiscovered(GridSize), StartPosition)

Init ==
    /\ is_first_tick = FALSE
    /\ outcome = "none"
    /\ ai_calls = 0
    /\ views = 1
    /\ sends = 1
    /\ game_pc = "drain"
    /\ run_mode = Paused
    /\ ticks = 0
    /\ game_world = InitialWorld
    /\ robot_position = StartPosition
    /\ world_data = NoData
    /\ elapsed = 0
    /\ send_failed = FALSE
    /\ gui_to_game = <<>>
    /\ game_to_worker = <<WorldData(0, InitialWorld, StartPosition)>>
    /\ worker_to_gui = <<>>
    /\ worker_pc = "recv"
    /\ world_copy = NoWorld
    /\ new_world = NoData
    /\ gui_module = "gui_thread"
    /\ mesh_tiles = {}
    /\ gui_pc = "new"
    /\ gui_run_mode = Paused
    /\ last_was_uncapped = FALSE
    /\ last_ticks_per_second_cap = InitialCap
    /\ gui_world_copy = NoData
    /\ n_sent = 0
    /\ terminate_sent = FALSE
    /\ single_sent = 0
    /\ continuous_sent = FALSE
    /\ last_drain = <<>>
    /\ observed = Paused
    /\ tick_at_branch = 0
    /\ worker_seen = <<>>
    /\ prev_copy = NoWorld

\* The same start with either of the two GUI sources built.
InitModules ==
    /\ is_first_tick = FALSE
    /\ outcome = "none"
    /\ ai_calls = 0
    /\ views = 1
    /\ sends = 1
    /\ game_pc = "drain"
    /\ run_mode = Paused
    /\ ticks = 0
    /\ game_world = InitialWorld
    /\ robot_position = StartPosition
    /\ world_data = NoData
    /\ elapsed = 0
    /\ send_failed = FALSE
    /\ gui_to_game = <<>>
    /\ game_to_worker = <<WorldData(0, InitialWorld, StartPosition)>>
    /\ worker_to_gui = <<>>
    /\ worker_pc = "recv"
    /\ world_copy = NoWorld
    /\ new_world = NoData
    /\ gui_module \in GuiModules
    /\ mesh_tiles = {}
    /\ gui_pc = "new"
    /\ gui_run_mode = Paused
    /\ last_was_uncapped = FALSE
    /\ last_ticks_per_second_cap = InitialCap
    /\ gui_world_copy = NoData
    /\ n_sent = 0
    /\ terminate_sent = FALSE
    /\ single_sent = 0
    /\ continuous_sent = FALSE
    /\ last_drain = <<>>
    /\ observed = Paused
    /\ tick_at_branch = 0
    /\ worker_seen = <<>>
    /\ prev_copy = NoWorld

Next ==
    \/ GameDrain
    \/ GameBranch
    \/ GamePausedSleep
    \/ GameCapSleep
    \/ GameTick
    \/ GameSend
    \/ WorkerRecv
    \/ WorkerRecvClosed
    \/ WorkerForward
    \/ GuiNew
    \/ GuiCloseRequested
    \/ GuiKeyboardInput
    \/ GuiFrame
    \/ GuiLoopDestroyed

Spec == Init /\ [][Next]_vars

SpecModules == InitModules /\ [][Next]_vars

\* SpecRunner: the whole of GuiRunner, from the call of GuiRunner::new to the
\* return of GuiRunner::run, with the Err results the robotics_lib Runner can give.
InitRunner ==
    /\ game_pc = "new"
    /\ run_mode = Paused
    /\ ticks = 0
    /\ game_world = Undiscovered(GridSize)
    /\ robot_position = StartPosition
    /\ world_data = NoData
    /\ elapsed = 0
    /\ send_failed = FALSE
    /\ is_first_tick = TRUE
    /\ outcome = "none"
    /\ ai_calls = 0
    /\ views = 0
    /\ sends = 0
    /\ gui_to_game = <<>>
    /\ game_to_worker = <<>>
    /\ worker_to_gui = <<>>
    /\ worker_pc = "unstarted"
    /\ world_copy = NoWorld
    /\ new_world = NoData
    /\ gui_module = "gui_thread"
    /\ mesh_tiles = {}
    /\ gui_pc = "unstarted"
    /\ gui_run_mode = Paused
    /\ last_was_uncapped = FALSE
    /\ last_ticks_per_second_cap = InitialCap
    /\ gui_world_copy = NoData
    /\ n_sent = 0
    /\ terminate_sent = FALSE
    /\ single_sent = 0
    /\ continuous_sent = FALSE
    /\ last_drain = <<>>
    /\ observed = Paused
    /\ tick_at_branch = 0
    /\ worker_seen = <<>>
    /\ prev_copy = NoWorld

NextRunner ==
    \/ RunnerNew
    \/ GuiRunnerNewErr
    \/ GuiRunnerFirstTick
    \/ GuiRunnerFirstSend
    \/ GuiRunnerNewOk
    \/ GuiRunnerRun
    \/ GameTickErr
    \/ GuiRunnerRunOk
    \/ Next

SpecRunner == InitRunner /\ [][NextRunner]_vars

----------------------------------------------------------------------------
\* FairSpec: the pipeline with its threads scheduled fairly.  A thread that
\* can take a step eventually takes one; the user's events are not forced,
\* but an event loop that was told to exit does end its iteration.

GameStep ==
    GameDrain \/ GameBranch \/ GamePausedSleep \/ GameCapSleep \/ GameTick \/ GameTickOn
        \/ GameSend
WorkerStep == WorkerRecv \/ WorkerRecvClosed \/ WorkerForward

\* A frame that finds worlds queued: MainEventsCleared comes with every
\* iteration of the event loop, so queued worlds do get drained.
GuiFrameDrains == GuiFrame /\ worker_to_gui # <<>>

NextLive ==
    \/ Next
    \/ GameTickOn

FairSpec ==
    /\ Init
    /\ [][NextLive]_vars
    /\ WF_vars(GameStep)
    /\ WF_vars(WorkerStep)
    /\ WF_vars(GuiNew)
    /\ WF_vars(GuiFrameDrains)
    /\ WF_vars(GuiLoopDestroyed)

\* FairRunner: SpecRunner with the worker thread and the recv() of GUI::new
\* scheduled once GuiRunner::run has started them.
FairRunner ==
    /\ InitRunner
    /\ [][NextRunner]_vars
    /\ WF_vars(WorkerStep)
    /\ WF_vars(GuiNew)

\* FairPipe: the same threads as Spec with the worker thread and the send of
\* the game thread scheduled; nothing is asked of the GUI or of the user.
FairPipe ==
    /\ Init
    /\ [][Next]_vars
    /\ WF_vars(WorkerStep)
    /\ WF_vars(GameSend)

----------------------------------------------------------------------------
\* SpecDiff: the worker thread alone, in front of one queued PartialWorld.
\* The game loop has returned and the GUI is about to end; world_copy is None
\* (the queued world is tick 0, as GuiRunner::new left it) or the world of
\* tick 0, and then the queued world is tick 1, made on a SingleTick sent
\* before the Terminate: tick 0 with up to MaxChanged cells set to a tile.

Subsets(S, n) == { T \in SUBSET S : Cardinality(T) <= n }

SetTiles(world, cells, tile) ==
    [x \in 1..Len(world) |->
        [y \in 1..Len(world) |->
            IF <<x - 1, y - 1>> \in cells THEN tile ELSE world[x][y]]]

InitDiff ==
    /\ is_first_tick = FALSE
    /\ outcome = "none"
    /\ views = 1
    /\ game_pc = "done"
    /\ run_mode = Terminate
    /\ world_data = NoData
    /\ elapsed = 0
    /\ send_failed = FALSE
    /\ gui_to_game = <<>>
    /\ worker_to_gui = <<>>
    /\ worker_pc = "recv"
    /\ new_world = NoData
    /\ gui_module = "gui_thread"
    /\ mesh_tiles = {}
    /\ gui_pc = "exiting"
    /\ gui_run_mode = Terminate
    /\ last_was_uncapped = FALSE
    /\ last_ticks_per_second_cap = InitialCap
    /\ terminate_sent = TRUE
    /\ continuous_sent = FALSE
    /\ last_drain = <<>>
    /\ observed = Terminate
    /\ prev_copy = NoWorld
    /\ \E start \in Coords(GridSize) :
        LET first == Discover(Undiscovered(GridSize), start)
        IN  /\ robot_position = start
            /\ \/ /\ ticks = 0
                  /\ n_sent = 1
                  /\ single_sent = 0
                  /\ tick_at_branch = 0
                  /\ ai_calls = 0
                  /\ sends = 1
                  /\ game_world = first
                  /\ world_copy = NoWorld
                  /\ worker_seen = <<>>
                  /\ gui_world_copy = NoData
                  /\ game_to_worker = <<WorldData(0, first, start)>>
               \/ /\ ticks = 1
                  /\ n_sent = 2
                  /\ single_sent = 1
                  /\ tick_at_branch = 1
                  /\ ai_calls = 1
                  /\ sends = 2
                  /\ world_copy = first
                  /\ worker_seen = <<0>>
                  /\ gui_world_copy = WorldData(0, first, start)
                  /\ \E cells \in Subsets(Coords(GridSize), MaxChanged), tile \in Tiles :
                        /\ game_world = SetTiles(first, cells, tile)
                        /\ game_to_worker = <<WorldData(1, game_world, start)>>

NextDiff ==
    \/ WorkerRecv
    \/ WorkerRecvClosed
    \/ WorkerForward

SpecDiff == InitDiff /\ [][NextDiff]_vars

\* The same worker while the event loop of the GUI may end at any moment and
\* drop rx_from_worker; the worker thread is scheduled, so a recv() or a send()
\* that can return does.
NextCascade ==
    \/ NextDiff
    \/ GuiLoopDestroyed

FairDiff ==
    /\ InitDiff
    /\ [][NextCascade]_vars
    /\ WF_vars(WorkerStep)

----------------------------------------------------------------------------
\* SpecGui: the GUI thread alone, from GUI::new on, in front of whatever the
\* other end of rx_from_worker can be when GuiThread::start calls GUI::new: a
\* worker that has forwarded the first world or is about to, and one that has
\* ended, with the first world queued or with nothing queued.  The game loop
\* has returned.

InitGui ==
    /\ is_first_tick = FALSE
    /\ outcome = "none"
    /\ ai_calls = 0
    /\ views = 1
    /\ sends = 1
    /\ game_pc = "done"
    /\ run_mode = Terminate
    /\ world_data = NoData
    /\ elapsed = 0
    /\ send_failed = FALSE
    /\ gui_to_game = <<>>
    /\ game_to_worker = <<>>
    /\ ticks = 0
    /\ tick_at_branch = 0
    /\ last_drain = <<>>
    /\ observed = Terminate
    /\ prev_copy = NoWorld
    /\ gui_module \in GuiModules
    /\ mesh_tiles = {}
    /\ gui_pc = "new"
    /\ gui_run_mode = Paused
    /\ last_was_uncapped = FALSE
    /\ last_ticks_per_second_cap = InitialCap
    /\ gui_world_copy = NoData
    /\ n_sent = 0
    /\ terminate_sent = FALSE
    /\ single_sent = 0
    /\ continuous_sent = FALSE
    /\ \E start \in Coords(GridSize) :
        LET first == Discover(Undiscovered(GridSize), start)
            data  == [WorldData(0, first, start) EXCEPT
                        !.tiles_to_refresh = FirstTiles(first, start)]
        IN  /\ robot_position = start
            /\ game_world = first
            /\ \/ /\ worker_pc \in {"recv", "done"}
                  /\ worker_to_gui = <<data>>
                  /\ new_world = NoData
                  /\ world_copy = first
                  /\ worker_seen = <<0>>
               \/ /\ worker_pc = "forward"
                  /\ worker_to_gui = <<>>
                  /\ new_world = data
                  /\ world_copy = first
                  /\ worker_seen = <<0>>
               \/ /\ worker_pc = "done"
                  /\ worker_to_gui = <<>>
                  /\ new_world = NoData
                  /\ world_copy = NoWorld
                  /\ worker_seen = <<>>

NextGui ==
    \/ GuiNew
    \/ GuiNewClosed
    \/ GuiCloseRequested
    \/ GuiKeyboardInput
    \/ GuiFrame
    \/ GuiLoopDestroyed
    \/ WorkerForward
    \/ WorkerRecvClosed

SpecGui == InitGui /\ [][NextGui]_vars

----------------------------------------------------------------------------
\* Properties of the run-mode protocol (Spec).

Last(queue) == queue[Len(queue)]

\* C1: the loop starts with run_mode = Paused, and every drain empties the
\* control channel and leaves run_mode equal to the message queued last; with
\* nothing queued run_mode is left as it was.
C1_DrainKeepsLast ==
    /\ run_mode = Paused
    /\ [][game_pc = "drain" /\ game_pc' = "branch"
            => /\ gui_to_game' = <<>>
               /\ run_mode' = IF gui_to_game = <<>> THEN run_mode ELSE Last(gui_to_game)]_vars

\* A drain that took two different messages and kept the second.
C1_Witness ==
    /\ game_pc = "branch"
    /\ Len(last_drain) >= 2
    /\ last_drain[1] # Last(last_drain)
    /\ run_mode = Last(last_drain)

\* C2: while the mode the loop last matched is Paused (as it is before the
\* first match) the loop only sleeps and drains, and no tick is made; a tick
\* is made only after SingleTick or Continuous has been matched.  (The code
\* resets run_mode to Paused before the one tick of a SingleTick, so the
\* property is stated on the mode matched, not on the variable.)
C2_PausedNoTick ==
    /\ [](observed = Paused => game_pc \in {"drain", "branch", "sleep_paused"})
    /\ [][observed = Paused => ticks' = ticks]_vars
    /\ [][ticks' # ticks => observed = SingleTick \/ IsContinuous(observed)]_vars

\* The loop asleep in Paused, after a tick, with a request waiting.
C2_Witness ==
    /\ observed = Paused
    /\ game_pc = "sleep_paused"
    /\ ticks >= 1
    /\ gui_to_game # <<>>

\* C3: a matched SingleTick sets run_mode back to Paused and leads to the
\* tick; until the next match exactly one tick is made; and when the drain
\* after that tick finds nothing queued, the next match goes to the Paused
\* sleep, not to a tick.
C3_SingleTickOnce ==
    /\ [][game_pc = "branch" /\ game_pc' # "branch" /\ run_mode = SingleTick
            => game_pc' = "tick" /\ run_mode' = Paused]_vars
    /\ [](observed = SingleTick =>
            \/ game_pc = "tick" /\ ticks = tick_at_branch /\ run_mode = Paused
            \/ game_pc \in {"send", "drain"} /\ ticks = tick_at_branch + 1 /\ run_mode = Paused
            \/ game_pc = "branch" /\ ticks = tick_at_branch + 1)
    /\ [][observed = SingleTick /\ game_pc = "branch" /\ game_pc' # "branch"
                /\ last_drain = <<>>
            => game_pc' = "sleep_paused" /\ ticks' = ticks]_vars

\* The single tick has been made and the loop is back at the drain, Paused.
C3_Witness ==
    /\ observed = SingleTick
    /\ game_pc = "drain"
    /\ ticks = tick_at_branch + 1
    /\ run_mode = Paused

C5_TerminateUnwinds ==
    terminate_sent ~> (game_pc = "done" /\ worker_pc = "done" /\ gui_pc = "done")

Range(queue) == { queue[i] : i \in 1..Len(queue) }

\* C6 as claimed: a run_mode that is Terminate, the GUI's or the loop's, stays
\* Terminate; and a match made after a drain that took a Terminate leaves
\* the loop, whatever was sent after the Terminate.
C6_TerminateAbsorbing ==
    /\ [][gui_run_mode = Terminate => gui_run_mode' = Terminate]_vars
    /\ [][run_mode = Terminate => run_mode' = Terminate]_vars
    /\ [][game_pc = "branch" /\ game_pc' # "branch" /\ Terminate \in Range(last_drain)
            => game_pc' = "done"]_vars

----------------------------------------------------------------------------
\* Properties of the game -> worker channel (Spec).

TicksOf(queue) == [i \in 1..Len(queue) |-> queue[i].tick]
UpTo(n) == [i \in 1..(n + 1) |-> i - 1]

\* C7: the channel never holds more than one world; the world queued by
\* GuiRunner::new is in the buffer, as it was sent, for as long as the worker
\* has received nothing; a send made while the buffer holds a world and the
\* worker lives cannot return, and as long as the worker does not receive the
\* loop stays in that send, with the same tick; a buffered world leaves the
\* buffer only by being received, whole.
C7_Backpressure ==
    /\ [](Len(game_to_worker) <= 1)
    /\ [](worker_seen = <<>> =>
            /\ game_to_worker = <<WorldData(0, InitialWorld, StartPosition)>>
            /\ ticks = 0)
    /\ [](game_pc = "send" /\ game_to_worker # <<>> /\ worker_pc # "done"
            => ~ENABLED GameSend)
    /\ [][game_pc = "send" /\ game_to_worker # <<>> /\ worker_pc # "done"
            /\ game_to_worker' = game_to_worker
            => game_pc' = "send" /\ ticks' = ticks /\ world_data' = world_data]_vars
    /\ [][game_to_worker # <<>> /\ game_to_worker' # game_to_worker
            => /\ worker_pc = "recv"
               /\ game_to_worker' = <<>>
               /\ new_world'.tick = Head(game_to_worker).tick
               /\ new_world'.world = Head(game_to_worker).world]_vars

\* The loop blocked in the send of tick 2 while tick 1 is in the buffer, and
\* the GUI has already asked for something else.
C7_Witness ==
    /\ game_pc = "send"
    /\ ticks = MaxTicks
    /\ world_data.tick = MaxTicks
    /\ TicksOf(game_to_worker) = <<MaxTicks - 1>>
    /\ worker_pc = "recv"
    /\ gui_to_game # <<>>

\* C8: the worker has received ticks 0, 1, 2, ... each once and in order; and
\* while the worker runs, what it has received, what is queued and what the
\* loop is sending are together exactly the ticks 0..ticks.
C8_EveryTickOnceInOrder ==
    /\ worker_seen = [i \in 1..Len(worker_seen) |-> i - 1]
    /\ worker_pc # "done" =>
        worker_seen \o TicksOf(game_to_worker)
            \o (IF game_pc = "send" THEN <<world_data.tick>> ELSE <<>>) = UpTo(ticks)

\* The worker has received three worlds and the loop is sending a fourth tick.
C8_Witness ==
    /\ worker_pc # "done"
    /\ Len(worker_seen) >= MaxTicks
    /\ ticks = MaxTicks
    /\ game_to_worker # <<>>

----------------------------------------------------------------------------
\* Properties of the worker's scan (SpecDiff).

Abs(n) == IF n < 0 THEN -n ELSE n
Near(c, d) == Abs(c[1] - d[1]) <= 1 /\ Abs(c[2] - d[2]) <= 1
Cell(world, c) == world[c[1] + 1][c[2] + 1]

\* The cells whose value in the grid just received is not the one retained
\* before it.
Differing ==
    { c \in Coords(GridSize) : Cell(prev_copy, c) # Cell(new_world.world, c) }

\* The worker has scanned a world that is not its first.
Scanned == worker_pc = "forward" /\ prev_copy # NoWorld

\* C9: after the scan of a world that is not the first, every cell that
\* differs from the retained grid, and every cell of the grid at Chebyshev
\* distance at most 1 from such a cell, is in tiles_to_refresh.
C9_NoFalseNegatives ==
    Scanned =>
        \A c \in Differing :
            \A d \in Coords(GridSize) :
                Near(c, d) => d \in new_world.tiles_to_refresh

\* The far corner goes from undiscovered to a tile, and another cell changes
\* its tile.
C9_Witness ==
    /\ Scanned
    /\ LET corner == <<GridSize - 1, GridSize - 1>>
       IN  /\ corner \in Differing
           /\ Cell(prev_copy, corner) = NoTile
           /\ \E c \in Differing : Cell(prev_copy, c) # NoTile
    /\ new_world.tiles_to_refresh # Coords(GridSize)

\* C10: after the scan of a world that is not the first, a cell is in
\* tiles_to_refresh only if it is a cell of the grid and it, or a cell at
\* Chebyshev distance at most 1 from it, differs from the retained grid; a
\* grid equal to the retained one gives the empty set.
C10_NoFalsePositives ==
    Scanned =>
        /\ \A d \in new_world.tiles_to_refresh :
            /\ d \in Coords(GridSize)
            /\ \E c \in Differing : Near(c, d)
        /\ prev_copy = new_world.world => new_world.tiles_to_refresh = {}

\* One cell of the border changed: its neighbourhood is dirty and nothing else.
C10_Witness ==
    /\ Scanned
    /\ Differing = {<<0, GridSize - 1>>}
    /\ Cardinality(new_world.tiles_to_refresh) = 4

\* The worker has taken its first world and is about to forward it.
FirstScanned == worker_pc = "forward" /\ prev_copy = NoWorld

\* C11: the first world the worker forwards has a tiles_to_refresh that is
\* not empty and holds the robot's cell and every cell of the grid at
\* Chebyshev distance at most 1 from it.
C11_FirstDirtyAroundRobot ==
    FirstScanned =>
        /\ new_world.tiles_to_refresh # {}
        /\ new_world.robot_position \in new_world.tiles_to_refresh
        /\ \A d \in Coords(GridSize) :
              Near(new_world.robot_position, d) => d \in new_world.tiles_to_refresh

\* The robot starts in the far corner; the cells away from it are undiscovered.
C11_Witness ==
    /\ FirstScanned
    /\ new_world.robot_position = <<GridSize - 1, GridSize - 1>>
    /\ Cell(new_world.world, <<0, 0>>) = NoTile
    /\ Cardinality(new_world.tiles_to_refresh) = 4

\* C12: with no world_copy yet, every discovered cell of the world received
\* is in tiles_to_refresh, and world_copy becomes the grid of that world.
C12_FirstDirtyAllDiscovered ==
    FirstScanned =>
        /\ \A c \in Coords(GridSize) :
              Cell(new_world.world, c) # NoTile => c \in new_world.tiles_to_refresh
        /\ world_copy = new_world.world

\* The robot starts on the border: six cells are discovered, all of them dirty.
C12_Witness ==
    /\ FirstScanned
    /\ new_world.robot_position = <<0, 1>>
    /\ Cardinality({ c \in Coords(GridSize) : Cell(new_world.world, c) # NoTile }) = 6
    /\ world_copy # NoWorld

----------------------------------------------------------------------------
\* The per-frame drain of the GUI.

\* The state a snapshot carries, apart from its dirty set.
StateOf(data) == [data EXCEPT !.tiles_to_refresh = {}]

\* The union of the dirty sets of the queued snapshots.
DirtyOf(queue) == UNION {queue[i].tiles_to_refresh : i \in DOMAIN queue}

\* A step in which the running GUI empties a queue of N >= 1 snapshots.
FrameDrain ==
    /\ gui_pc \in {"run", "exiting"}
    /\ worker_to_gui # <<>>
    /\ worker_to_gui' = <<>>

\* C13: a frame that drains N >= 1 queued snapshots M1..MN holds the state of
\* MN afterwards and gives the mesh the union of the dirty sets of M1..MN; a
\* step of the running GUI with nothing queued leaves the state it holds as it
\* was and gives the mesh no other dirty set than the one it held.
C13_DrainMergesDirty ==
    [][/\ FrameDrain =>
            /\ StateOf(gui_world_copy') = StateOf(Last(worker_to_gui))
            /\ mesh_tiles' = DirtyOf(worker_to_gui)
       /\ (gui_pc \in {"run", "exiting"} /\ worker_to_gui = <<>>) =>
            /\ StateOf(gui_world_copy') = StateOf(gui_world_copy)
            /\ gui_world_copy' # gui_world_copy =>
                    mesh_tiles' = gui_world_copy.tiles_to_refresh]_vars

\* The dirty markers on their way to the mesh: those of the queued snapshots
\* and those of the snapshot the GUI holds.
Pending == DirtyOf(worker_to_gui) \cup gui_world_copy.tiles_to_refresh

\* C14: while the render loop runs no dirty marker is dropped: a tile that was
\* dirty in a forwarded snapshot stops being on its way to the mesh only in a
\* frame whose world_mesh.update is given it, superseded snapshot or not.
C14_DirtyNeverDropped ==
    [][(gui_pc \in {"run", "exiting"}) =>
            \A c \in Pending : c \notin Pending' => c \in mesh_tiles']_vars

-----------------------------------------------------------------------------
\* Shutdown.

\* A step in which the driver performs a tick.
TickStep == game_pc = "tick" /\ game_pc' = "send"

\* C15: once a send of the driver has failed because the receiver is gone, the
\* driver performs no further tick and leaves its loop.
C15_FailedSendStops ==
    /\ [][send_failed => ~TickStep]_vars
    /\ send_failed ~> (game_pc = "done")

\* C16: once the GUI has ended, and with it the sender of gui_to_game, the
\* driver leaves its loop, whatever run_mode it has kept.
C16_ClosureStopsDriver == (gui_pc = "done") ~> (game_pc = "done")

\* C17: the worker ends by channel closure.  Once the game loop has returned
\* the worker thread ends; a forward made after the GUI has dropped the
\* receiver ends it in that step; and it ends in no other way than these two.
C17_WorkerCascade ==
    /\ (game_pc = "done") ~> (worker_pc = "done")
    /\ [][(worker_pc = "forward" /\ gui_pc = "done" /\ worker_pc' # worker_pc)
            => worker_pc' = "done"]_vars
    /\ [][(worker_pc # "done" /\ worker_pc' = "done")
            => \/ worker_pc = "recv" /\ game_to_worker = <<>> /\ game_pc = "done"
               \/ worker_pc = "forward" /\ gui_pc = "done"]_vars

\* The worker has ended on a forward of tick 1 to a GUI that was gone: the world is dropped.
C17_Witness ==
    /\ worker_pc = "done"
    /\ gui_pc = "done"
    /\ worker_seen = <<0, 1>>
    /\ worker_to_gui = <<>>
    /\ game_to_worker = <<>>

-----------------------------------------------------------------------------
\* The GUI and the pipeline.

\* C19 as stated: the GUI thread never waits for the pipeline, in GUI::new
\* or in a frame: whatever the driver and the worker are doing, it can take
\* its next step.
C19_NeverBlocks ==
    /\ gui_pc = "new" => ENABLED GuiNew
    /\ gui_pc \in {"run", "exiting"} => ENABLED GuiFrame

\* C19, amended: GUI::new waits for the first world and for nothing else; from
\* then on, whatever the driver and the worker are doing, a frame can be
\* completed and a run mode can be sent.
C19_RunNeverBlocks ==
    /\ (gui_pc = "new" /\ ~ENABLED GuiNew) => worker_to_gui = <<>>
    /\ gui_pc \in {"run", "exiting"} =>
        /\ ENABLED GuiFrame
        /\ n_sent < MaxSent => ENABLED GuiKeyboardInput /\ ENABLED GuiCloseRequested

\* The GUI runs with nothing to drain and a run mode still to send while the
\* driver waits in its send of tick 2, the worker not having taken tick 1.
C19_Witness ==
    /\ gui_pc = "run"
    /\ worker_to_gui = <<>>
    /\ game_pc = "send"
    /\ ~CanSend(game_to_worker)
    /\ n_sent < MaxSent

-----------------------------------------------------------------------------
\* Pacing.

\* C20: under Continuous(Some(cap)) a tick begins no earlier than an interval
\* of 1 / cap after the tick before it began, under whatever mode that one was
\* made: when the loop reads less than the interval it sleeps, and the tick
\* follows the sleep.
C20_CappedInterval ==
    [][/\ (TickStep /\ IsContinuous(run_mode) /\ run_mode.cap # NoCap)
            => elapsed >= Interval(run_mode.cap)
       /\ (game_pc = "branch" /\ IsContinuous(run_mode) /\ run_mode.cap # NoCap
                /\ game_pc' # game_pc /\ elapsed' < Interval(run_mode.cap))
            => game_pc' = "sleep_cap"
       /\ (game_pc = "sleep_cap" /\ game_pc' # game_pc)
            => game_pc' = "tick" /\ elapsed' >= Interval(run_mode.cap)]_vars

\* Tick 1 has been made; under Continuous(Some(5)) the loop has read less
\* than the interval since it began and sleeps.
C20_Witness ==
    /\ game_pc = "sleep_cap"
    /\ run_mode = Continuous(InitialCap)
    /\ elapsed < Interval(InitialCap)
    /\ ticks = 1

-----------------------------------------------------------------------------
\* The driver and the wrapped robot (SpecRunner).

\* The calls of RobotWrapper::process_tick made so far: the one of
\* GuiRunner::new and those of the loop.
ProcessTicks == ticks + (IF is_first_tick THEN 0 ELSE 1)

\* The sends those calls have reached.
SendsDue == ProcessTicks - (IF game_pc \in {"send", "first_send"} THEN 1 ELSE 0)

\* Only a step of process_tick, on the driver's thread, changes what the
\* runner holds or calls the wrapped robot.
EngineStep ==
    /\ game_pc \in {"tick", "first_tick"}
    /\ game_pc' \in {"send", "first_send"}

\* C21 as stated: the wrapped robot's process_tick is called once in every
\* process_tick of the wrapper, the first one included.
C21_CallbackEveryTick == ai_calls = ProcessTicks

\* C21, amended: the wrapped robot's process_tick is called once in every tick
\* of the loop and not in the tick of GuiRunner::new; every process_tick,
\* that one included, builds one PartialWorld and tries one send; and nothing
\* but a process_tick step of the driver changes the runner's world or calls the robot.
C21_CallbackEveryLoopTick ==
    /\ [](ai_calls = ticks)
    /\ [](sends = SendsDue)
    /\ [][(game_world' # game_world \/ robot_position' # robot_position
                \/ ai_calls' # ai_calls \/ views' # views) => EngineStep]_vars

\* Two ticks of the loop after the one of GuiRunner::new: two calls, three sends.
C21_Witness ==
    /\ game_pc = "drain"
    /\ ticks = 2
    /\ ai_calls = 2
    /\ sends = 3
    /\ views = 1

\* C22: robot_view runs in the first process_tick, before any call of the
\* wrapped robot, and in no other; the first PartialWorld sent is the robot's
\* view from where it starts.
C22_ObserveOnceFirst ==
    /\ views = (IF is_first_tick THEN 0 ELSE 1)
    /\ ai_calls > 0 => views = 1
    /\ sends = 0 => ai_calls = 0
    /\ game_pc = "first_send" =>
        /\ world_data.robot_position = StartPosition
        /\ world_data.world = Discover(Undiscovered(GridSize), StartPosition)
        /\ \A c \in Coords(GridSize) :
                Near(StartPosition, c) => Cell(world_data.world, c) # NoTile

\* The wrapped robot has been called, once, after the first world was sent.
C22_Witness ==
    /\ ai_calls = 1
    /\ views = 1
    /\ sends = 2
    /\ worker_seen = <<0, 1>>

\* C23: when Runner::new or the first game_tick fails, GuiRunner::new has
\* returned the error, no thread has been started, and nothing is left that
\* could take a step; the threads are started only by a GuiRunner that was built.
C23_NewFailsClean ==
    /\ (game_pc = "failed") <=> (outcome = "err")
    /\ game_pc = "failed" =>
        /\ worker_pc = "unstarted"
        /\ gui_pc = "unstarted"
        /\ game_to_worker = <<>> /\ worker_to_gui = <<>> /\ gui_to_game = <<>>
        /\ ~ENABLED NextRunner
    /\ game_pc \in {"new", "first_tick", "first_send", "first_sent", "constructed"} =>
        worker_pc = "unstarted" /\ gui_pc = "unstarted"

\* The first game_tick has failed after its process_tick had sent the first world.
C23_Witness ==
    /\ game_pc = "failed"
    /\ outcome = "err"
    /\ sends = 1
    /\ views = 1

\* C24: a game_tick that fails in the loop does not panic: run goes on to its
\* joins and returns the error; and run returns Ok only when the loop and
\* both threads have ended.
C24_FatalErrorReturned ==
    /\ outcome # "panic"
    /\ outcome = "ok" => game_pc = "done" /\ worker_pc = "done" /\ gui_pc = "done"

-----------------------------------------------------------------------------
\* The run modes the GUI sends.

\* C25: the event loop is told to exit only once Terminate has been sent, and
\* no other run mode is sent after a Terminate.
C25_TerminateSentLast ==
    /\ [](gui_pc \in {"exiting", "done"} => terminate_sent)
    /\ [][(terminate_sent /\ n_sent' # n_sent) => gui_run_mode' = Terminate]_vars

\* C26: with the game loop returned and its receiver dropped, the GUI can
\* still make every send; the send queues nothing, changes the GUI's run_mode
\* as any send does, and leaves the event loop where it was, frames included.
C26_SendBestEffort ==
    /\ []((game_pc = "done" /\ gui_pc \in {"run", "exiting"}) =>
            /\ ENABLED GuiFrame
            /\ n_sent < MaxSent => ENABLED GuiKeyboardInput /\ ENABLED GuiCloseRequested)
    /\ [][(game_pc = "done" /\ n_sent' # n_sent) =>
            /\ gui_to_game' = gui_to_game
            /\ gui_pc' \in {"run", "exiting"}
            /\ gui_pc = "exiting" => gui_pc' = "exiting"
            /\ ENABLED GuiFrame]_vars

\* The loop has returned on the Terminate of CloseRequested; the Continuous
\* sent by the M pressed after it found the channel closed.
C26_Witness ==
    /\ game_pc = "done"
    /\ gui_pc = "exiting"
    /\ n_sent = 2
    /\ IsContinuous(gui_run_mode)
    /\ gui_to_game = <<>>

\* The game loop has taken the single tick asked for and is back in Paused,
\* with nothing left to drain.
SingleTickServed ==
    /\ ticks >= 1
    /\ run_mode = Paused
    /\ game_pc = "sleep_paused"
    /\ gui_to_game = <<>>

\* C27 as stated: once the loop has made the tick and is Paused again, the
\* GUI's run_mode is no longer SingleTick.
C27_SingleTickNotKept == SingleTickServed => gui_run_mode # SingleTick

\* C27, amended: the GUI's run_mode stays SingleTick until the next send,
\* whatever the loop does, and the GUI treats it as it treats Paused: the
\* next toggle starts Continuous as it would from Paused, never Paused, and a
\* change of the cap or of `uncapped` sends nothing.
C27_SingleTickAsPaused ==
    /\ [][(gui_run_mode = SingleTick /\ n_sent' = n_sent) => gui_run_mode' = SingleTick]_vars
    /\ [][(gui_run_mode = SingleTick /\ n_sent' # n_sent) =>
            gui_run_mode' \in {SingleTick, Terminate,
                               Continuous(IF last_was_uncapped' THEN NoCap
                                          ELSE last_ticks_per_second_cap')}]_vars
    /\ [][(gui_run_mode = SingleTick /\
                (last_was_uncapped' # last_was_uncapped
                    \/ last_ticks_per_second_cap' # last_ticks_per_second_cap))
            => n_sent' = n_sent]_vars

\* The tick has been made and the loop is Paused; the GUI still holds SingleTick.
C27_Witness ==
    /\ SingleTickServed
    /\ gui_run_mode = SingleTick
    /\ ticks = 1
    /\ gui_pc = "run"

\* What toggle_continuous_mode makes of the GUI's state as it is.
Toggled == ToggleContinuousMode(gui_run_mode, last_was_uncapped, last_ticks_per_second_cap)

\* C28: the GUI's run_mode is Paused until the first send and changes only in
\* a step that sends one message, which carries the new run_mode; a toggle
\* from Continuous gives Paused, from Paused or SingleTick it gives Continuous,
\* uncapped exactly when last_was_uncapped, and a single-tick request gives SingleTick.
C28_ModeIsLastSent ==
    /\ [](n_sent = 0 => gui_run_mode = Paused /\ gui_to_game = <<>>)
    /\ [](/\ IsContinuous(gui_run_mode) => Toggled = Paused
          /\ gui_run_mode \in {Paused, SingleTick} =>
                /\ IsContinuous(Toggled)
                /\ (Toggled.cap = NoCap) <=> last_was_uncapped
                /\ ~last_was_uncapped => Toggled.cap = last_ticks_per_second_cap
          /\ RequestSingleTick(gui_run_mode) = SingleTick)
    /\ [][(gui_run_mode' # gui_run_mode) => n_sent' = n_sent + 1]_vars
    /\ [][(n_sent' # n_sent) =>
            /\ n_sent' = n_sent + 1
            /\ game_pc # "done" => gui_to_game' = Append(gui_to_game, gui_run_mode')
            /\ gui_run_mode' \in
                    {Toggled, SingleTick, Terminate} \cup
                    (IF IsContinuous(gui_run_mode)
                     THEN {Continuous(IF last_was_uncapped' THEN NoCap
                                      ELSE last_ticks_per_second_cap')}
                     ELSE {})]_vars

\* `Uncapped?` was ticked while paused, then N and M were pressed: the queue
\* ends with the GUI's run_mode, Continuous(None).
C28_Witness ==
    /\ last_was_uncapped
    /\ gui_run_mode = Continuous(NoCap)
    /\ gui_to_game = <<SingleTick, Continuous(NoCap)>>
    /\ n_sent = 2

-----------------------------------------------------------------------------
\* The mesh.

InFlight ==
    worker_to_gui \o (IF new_world = NoData THEN <<>> ELSE <<new_world>>) \o game_to_worker

\* C30: every raw world the game loop sends has an empty tiles_to_refresh; the
\* worker takes one raw world at a time and writes only its tiles_to_refresh,
\* and it sends that one world to the GUI, once, before it takes the next (a
\* send that finds the GUI's receiver dropped queues nothing and ends the
\* worker); so while the GUI has its receiver the worlds in flight are
\* consecutive ticks in the order they were sent.
C30_OneAnnotatedPerRaw ==
    /\ [](\A i \in DOMAIN game_to_worker : game_to_worker[i].tiles_to_refresh = {})
    /\ [](gui_pc # "done" =>
            \A i \in DOMAIN InFlight : i > 1 => InFlight[i].tick = InFlight[i - 1].tick + 1)
    /\ []((worker_pc = "forward") <=> (new_world # NoData))
    /\ [][(new_world' # new_world /\ new_world' # NoData) =>
            /\ new_world = NoData
            /\ game_to_worker # <<>>
            /\ game_to_worker' = Tail(game_to_worker)
            /\ StateOf(new_world') = StateOf(Head(game_to_worker))
            /\ worker_to_gui' = worker_to_gui]_vars
    /\ [][(Len(worker_to_gui') > Len(worker_to_gui)) =>
            /\ new_world # NoData
            /\ worker_to_gui' = Append(worker_to_gui, new_world)
            /\ new_world' = NoData
            /\ game_to_worker' = game_to_worker]_vars
    /\ [][(new_world # NoData /\ new_world' # new_world) =>
            /\ new_world' = NoData
            /\ \/ worker_to_gui' = Append(worker_to_gui, new_world)
               \/ gui_pc = "done" /\ worker_pc' = "done" /\ worker_to_gui' = worker_to_gui]_vars

\* The GUI holds world 0; worlds 1 and 2 wait for it, annotated, in that order.
C30_Witness ==
    /\ gui_world_copy # NoData
    /\ gui_world_copy.tick = 0
    /\ Len(worker_to_gui) = 2
    /\ worker_to_gui[1].tick = 1
    /\ worker_to_gui[2].tick = 2
    /\ worker_to_gui[2].tiles_to_refresh # {}

----------------------------------------------------------------------------
\* The worker's retained grid and the pipeline (SpecRunner).

\* C31: whenever the worker holds a world it has processed, world_copy equals
\* that world's grid cell for cell; world_copy changes in no other step, so
\* the grid the next world is compared with (prev_copy) is the grid of the
\* world processed just before it, and tiles_to_refresh is the scan of the two.
C31_RetainedIsLastProcessed ==
    /\ [](worker_pc = "forward" =>
            /\ world_copy = new_world.world
            /\ \A c \in Coords(GridSize) : Cell(world_copy, c) = Cell(new_world.world, c))
    /\ [][(world_copy' # world_copy) =>
            /\ game_to_worker # <<>>
            /\ new_world' = [Head(game_to_worker) EXCEPT !.tiles_to_refresh = new_world'.tiles_to_refresh]
            /\ world_copy' = Head(game_to_worker).world]_vars
    /\ [][(new_world' # NoData /\ new_world' # new_world) =>
            /\ prev_copy' = world_copy
            /\ world_copy' = new_world'.world
            /\ world_copy # NoWorld =>
                    new_world'.tiles_to_refresh = ScanTiles(world_copy, new_world'.world)]_vars

\* The worker has processed the world of tick 2, which differs from the
\* world of tick 1 it had retained.
C31_Witness ==
    /\ worker_pc = "forward"
    /\ new_world.tick = 2
    /\ prev_copy # NoWorld
    /\ prev_copy # new_world.world
    /\ world_copy = new_world.world

\* C32: the worker's send to the GUI can always return, whatever the GUI
\* does, and its recv() can return whenever a world is queued: the worker
\* waits only in recv() on an empty channel.  So a game loop that is in the
\* send of a world always leaves it, by queueing the world or by finding the
\* worker gone, and while it is in the send the worker or the send can step.
C32_SendAlwaysReleased ==
    /\ [](worker_pc = "forward" => ENABLED WorkerForward)
    /\ [](worker_pc = "recv" /\ game_to_worker # <<>> => ENABLED WorkerRecv)
    /\ [](game_pc = "send" => ENABLED GameSend \/ ENABLED WorkerStep)
    /\ (game_pc = "send") ~> (game_pc # "send")
    /\ [][(game_pc = "send" /\ game_pc' # "send") =>
            \/ game_to_worker' = Append(game_to_worker, world_data)
            \/ worker_pc = "done" /\ game_to_worker' = game_to_worker]_vars

\* The loop waits in the send of tick 2 with tick 1 in the buffer, and the GUI
\* has ended: the worker can still receive, and its forward will not wait.
C32_Witness ==
    /\ game_pc = "send"
    /\ world_data.tick = MaxTicks
    /\ game_to_worker # <<>>
    /\ ~ENABLED GameSend
    /\ worker_pc = "recv"
    /\ gui_pc = "done"

\* C33: the send of the tick made in GuiRunner::new finds the buffer empty and
\* can return although no thread receives yet; while GUI::new waits in its
\* recv() the loop is Paused at tick 0 with nothing to drain, the world of
\* tick 0 is the one world in flight and the worker lives; GUI::new always
\* gets past its recv(), and what it receives is that world.
C33_StartupNoDeadlock ==
    /\ [](game_pc = "first_send" =>
            /\ game_to_worker = <<>>
            /\ worker_pc = "unstarted"
            /\ ENABLED GuiRunnerFirstSend)
    /\ [](gui_pc = "new" =>
            /\ run_mode = Paused /\ ticks = 0 /\ gui_to_game = <<>>
            /\ game_pc \in {"drain", "branch", "sleep_paused"}
            /\ worker_pc # "done"
            /\ Len(InFlight) = 1
            /\ StateOf(InFlight[1]) = WorldData(0, game_world, robot_position)
            /\ ENABLED GuiNew \/ ENABLED WorkerStep)
    /\ (gui_pc = "new") ~> (gui_pc = "run")
    /\ [][(gui_pc = "new" /\ gui_pc' # "new") =>
            /\ gui_pc' = "run"
            /\ StateOf(gui_world_copy') = WorldData(0, game_world, robot_position)
            /\ gui_world_copy'.tiles_to_refresh # {}]_vars

\* The GUI runs on the world of tick 0 while the loop, Paused, sleeps: nothing
\* was ever sent to it and nothing is in flight.
C33_Witness ==
    /\ gui_pc = "run"
    /\ gui_world_copy # NoData
    /\ gui_world_copy.tick = 0
    /\ game_pc = "sleep_paused"
    /\ run_mode = Paused
    /\ n_sent = 0
    /\ ticks = 0
    /\ views = 1
    /\ InFlight = <<>>

\* The worlds sent so far that the worker has not received (sends counts up to
\* MaxTicks + 2, worker_seen up to MaxTicks + 1 worlds).
Unreceived == sends - Len(worker_seen)

\* C34: the buffer never holds more than one world, and whenever the loop is
\* about to make a tick at most one of the worlds sent so far has not been
\* received by the worker: tick k + 2 does not begin before the world of tick
\* k was received.
C34_AtMostTwoAhead ==
    /\ Len(game_to_worker) <= 1
    /\ game_pc = "tick" => Unreceived <= 1

----------------------------------------------------------------------------
\* The bounds of tiles_to_refresh (SpecDiff).

\* C35: every cell of a tiles_to_refresh the worker has computed or has
\* forwarded is a cell of the grid, both coordinates in 0..size - 1, for the
\* first world and for a later one, wherever the robot or the changed cells are.
C35_DirtyInsideGrid ==
    /\ worker_pc = "forward" =>
            \A d \in new_world.tiles_to_refresh :
                /\ d[1] >= 0 /\ d[1] <= Len(new_world.world) - 1
                /\ d[2] >= 0 /\ d[2] <= Len(new_world.world) - 1
    /\ \A i \in DOMAIN worker_to_gui :
            worker_to_gui[i].tiles_to_refresh \subseteq Coords(Len(worker_to_gui[i].world))

\* Two opposite corners of the grid changed: their neighbourhoods are cut at
\* the border and leave the other two corners out.
C35_Witness ==
    /\ Scanned
    /\ Differing = {<<0, 0>>, <<GridSize - 1, GridSize - 1>>}
    /\ <<0, 0>> \in new_world.tiles_to_refresh
    /\ <<GridSize - 1, GridSize - 1>> \in new_world.tiles_to_refresh
    /\ <<0, GridSize - 1>> \notin new_world.tiles_to_refresh
    /\ <<GridSize - 1, 0>> \notin new_world.tiles_to_refresh

----------------------------------------------------------------------------
\* The run mode on both sides of gui_to_game (Spec).

\* Nothing is queued for the loop and the loop is not between its drain and
\* its match.
Settled == gui_to_game = <<>> /\ game_pc # "branch"

\* The loop's run_mode read against the GUI's: Continuous with the same cap on
\* both sides or on neither, and Paused in the loop exactly when the GUI has
\* Paused or SingleTick.
Agree ==
    /\ (IsContinuous(run_mode) \/ IsContinuous(gui_run_mode)) => run_mode = gui_run_mode
    /\ (run_mode = Paused) <=> (gui_run_mode \in {Paused, SingleTick})

\* C36: whenever gui_to_game is empty and the loop has finished its drain and
\* match, the loop's run_mode agrees with the GUI's.
C36_ModesAgree == Settled => Agree

\* A step that changes the cap or `uncapped`.
RateChanged ==
    \/ last_was_uncapped' # last_was_uncapped
    \/ last_ticks_per_second_cap' # last_ticks_per_second_cap

\* C37: a change of the cap or of `uncapped` made while the GUI's run_mode is
\* Continuous sends one message, Continuous with the cap as it now is, and
\* keeps it as the GUI's run_mode; made in any other run_mode it sends nothing
\* and leaves the GUI's run_mode and the queue as they were.
C37_RateChangeNeverStarts ==
    /\ [][(RateChanged /\ IsContinuous(gui_run_mode)) =>
            /\ n_sent' = n_sent + 1
            /\ gui_run_mode' = Continuous(IF last_was_uncapped' THEN NoCap
                                          ELSE last_ticks_per_second_cap')
            /\ game_pc # "done" => gui_to_game' = Append(gui_to_game, gui_run_mode')]_vars
    /\ [][(RateChanged /\ ~IsContinuous(gui_run_mode)) =>
            /\ n_sent' = n_sent
            /\ gui_to_game' = gui_to_game
            /\ gui_run_mode' = gui_run_mode
            /\ run_mode' = run_mode]_vars

\* The cap was moved and `uncapped` ticked while Paused: nothing was ever sent
\* and the loop, Paused, has made no tick.
C37_Witness ==
    /\ last_was_uncapped
    /\ last_ticks_per_second_cap # InitialCap
    /\ gui_run_mode = Paused
    /\ n_sent = 0
    /\ run_mode = Paused
    /\ game_pc = "sleep_paused"
    /\ ticks = 0

\* C38: as long as the GUI has sent no Continuous, the loop has made no more
\* ticks than the GUI has sent SingleTick messages.
C38_NoExtraTick == ~continuous_sent => ticks <= single_sent

\* Two SingleTick requests were taken by one drain: one tick was made, the
\* loop is Paused again and nothing is queued.
C38_Witness ==
    /\ ~continuous_sent
    /\ ~terminate_sent
    /\ single_sent = 2
    /\ ticks = 1
    /\ gui_to_game = <<>>
    /\ run_mode = Paused
    /\ game_pc = "sleep_paused"


=============================================================================
